---------------------------- MODULE Spec2Model ----------------------------
(***************************************************************************)
(* A model of the consistent-hash ring (src/shard/ring.go) and of the      *)
(* dhash node built on it (src/unnamed/part_001): the ring's add, remove,  *)
(* indices, getSlot and clean, the node's Start/Stop state machine with    *)
(* its three periodic workers, the ownership calculations Owned and        *)
(* owners, and the bodies of the workers: the migrate tick with its        *)
(* quiescence gate, the sync cycle and the clean cycle.                    *)
(*                                                                         *)
(* Positions and keys are byte strings, compared as bytes.Compare does.    *)
(* The byte alphabet is cut down from 0..255 to Byte and the digest size   *)
(* murmur.Size from 16 to Size.                                            *)
(***************************************************************************)
EXTENDS Integers, Sequences, FiniteSets, TLC

VARIABLES
    Nodes,      \* Ring.Nodes: the ring's []Remote
    last,       \* the last ring / ownership operation: its arguments, the ring before it, its result
    tree,       \* the keys stored in the node's radix tree
    redundancy, \* discord.Node.Redundancy(): the replication factor R
    state,      \* Node.state
    cpc,        \* per caller: where it is in a Start() or Stop() call
    calls,      \* number of Start()/Stop() calls begun so far
    tally,      \* counters of what the calls did (CAS wins, returns, node/timer starts and stops)
    wpc,        \* per Start() call and worker kind: the position of the goroutine it launched
    launched,   \* per worker kind: how many goroutines were launched
    since,      \* now - lastSync, now - lastReroute, now - lastMigrate, in units of syncInterval
    peers,      \* per remote address: the keys stored in that node's tree
    mpc         \* where a migrate tick is between its safety check and changePosition

vars == <<Nodes, last, tree, redundancy, state, cpc, calls, tally, wpc, launched,
          since, peers, mpc>>

ringVars == <<Nodes, last>>
dhashVars == <<tree, redundancy, since, peers, mpc>>
nodeVars == <<state, cpc, calls, tally, wpc, launched>>

-----------------------------------------------------------------------------
(* Bounds *)

\* length of a position in bytes (murmur.Size, 16 in the program)
Size == 2
\* number of goroutines that call Start() and Stop()
NumCallers == 2
\* number of Start() and Stop() calls made in all
MaxCalls == 3

\* largest replication factor tried
MaxRedundancy == 3

\* the byte alphabet (0..255 in the program)
Byte == {0, 1}
ByteBase == Cardinality(Byte)

Position == [1..Size -> Byte]
\* the peers' addresses: three one-byte strings
Addrs == {<<0>>, <<1>>, <<2>>}
Remote == [Pos : Position, Addr : Addrs]

\* syncInterval = time.Second: the tick period T, the unit of time
syncInterval == 1
\* migrateWaitFactor
migrateWaitFactor == 2
\* migrateHysteresis = 1.5, as numerator and denominator
migrateHysteresis == <<3, 2>>
\* the least owned count that lets a node migrate: mySize > 10
migrateMinSize == 10
\* an age from which the quiescence gate is open; larger ages are kept as this one
AgeCap == migrateWaitFactor * syncInterval + 1

-----------------------------------------------------------------------------
(* Library functions the ring uses *)

RECURSIVE bytesCompareFrom(_, _, _)
bytesCompareFrom(a, b, i) ==
    IF i > Len(a) /\ i > Len(b) THEN 0
    ELSE IF i > Len(a) THEN -1
    ELSE IF i > Len(b) THEN 1
    ELSE IF a[i] < b[i] THEN -1
    ELSE IF a[i] > b[i] THEN 1
    ELSE bytesCompareFrom(a, b, i + 1)

\* bytes.Compare: lexicographic, -1 / 0 / 1
bytesCompare(a, b) == bytesCompareFrom(a, b, 1)

RECURSIVE SearchLoop(_, _, _)
SearchLoop(i, j, f) ==
    IF i < j
    THEN LET h == (i + j) \div 2
         IN  IF ~f[h] THEN SearchLoop(h + 1, j, f) ELSE SearchLoop(i, h, f)
    ELSE i

\* sort.Search(n, f): binary search for the smallest index in [0, n) with f true, n if none
Search(n, f) == SearchLoop(0, n, f)

RECURSIVE SetBytesFrom(_, _, _)
SetBytesFrom(b, i, acc) ==
    IF i > Len(b) THEN acc ELSE SetBytesFrom(b, i + 1, acc * ByteBase + b[i])

\* big.Int.SetBytes: the big-endian unsigned value of a byte string
SetBytes(b) == SetBytesFrom(b, 1, 0)

RECURSIVE BigBytes(_)
\* big.Int.Bytes: the big-endian byte string of a value, without leading zero bytes
BigBytes(v) == IF v = 0 THEN <<>> ELSE Append(BigBytes(v \div ByteBase), v % ByteBase)

\* s[lo:hi] of a Go slice held as a sequence (0-based, hi exclusive)
Slice(s, lo, hi) == SubSeq(s, lo + 1, hi)

-----------------------------------------------------------------------------
(* Remote and Ring *)

\* Remote.less
less(self, other) ==
    LET val == bytesCompare(self.Pos, other.Pos)
    IN  IF val = 0
        THEN bytesCompare(self.Addr, other.Addr) < 0
        ELSE val < 0

\* append(self.Nodes[:index], self.Nodes[index+1:]...) on the backing array arr
\* whose first n entries are self.Nodes: entries index+1..n-1 move down by one,
\* the entries from n-1 on stay as they were.
deleteAt(arr, n, index) ==
    [k \in 1..Len(arr) |-> IF k - 1 >= index /\ k - 1 < n - 1 THEN arr[k + 1] ELSE arr[k]]

RECURSIVE addLoop(_, _, _, _, _)
\* the range loop of Ring.add: it runs over the m entries the slice had when
\* the loop began, reading the backing array arr, while self.Nodes (arr[:n]) shrinks.
addLoop(arr, n, m, index, remote) ==
    IF index >= m
    THEN [arr |-> arr, n |-> n, returned |-> FALSE, panic |-> FALSE]
    ELSE LET current == arr[index + 1]
         IN  IF current.Addr = remote.Addr
             THEN IF bytesCompare(current.Pos, remote.Pos) = 0
                  THEN [arr |-> arr, n |-> n, returned |-> TRUE, panic |-> FALSE]
                  ELSE IF index + 1 > n
                       THEN [arr |-> arr, n |-> n, returned |-> TRUE, panic |-> TRUE]
                       ELSE addLoop(deleteAt(arr, n, index), n - 1, m, index + 1, remote)
             ELSE addLoop(arr, n, m, index + 1, remote)

\* Ring.add without the removal of the entry that holds the address at another
\* position: the new entry is inserted beside the old one
addKeepingOld(nodes, remote) ==
    LET i == Search(Len(nodes), [k \in 0..(Len(nodes) - 1) |-> less(remote, nodes[k + 1])])
    IN  IF \E k \in 1..Len(nodes) : nodes[k] = remote
        THEN [nodes |-> nodes, panic |-> FALSE]
        ELSE [nodes |-> Slice(nodes, 0, i) \o (<<remote>> \o Slice(nodes, i, Len(nodes))),
              panic |-> FALSE]

\* Ring.add: the ring after add(remote), and whether the call panicked
add(nodes, remote) ==
    LET l == addLoop(nodes, Len(nodes), Len(nodes), 0, remote)
        cur == Slice(l.arr, 0, l.n)
        i == Search(Len(cur), [k \in 0..(Len(cur) - 1) |-> less(remote, cur[k + 1])])
    IN  IF l.returned
        THEN [nodes |-> cur, panic |-> l.panic]
        ELSE IF i < Len(cur)
             THEN [nodes |-> Slice(cur, 0, i) \o (<<remote>> \o Slice(cur, i, Len(cur))),
                   panic |-> FALSE]
             ELSE [nodes |-> Append(cur, remote), panic |-> FALSE]

\* Ring.indices taking the entry next to the match as the one after the
\* position, without the second search past the entries that share it
indicesNextAfterMatch(nodes, pos) ==
    LET n == Len(nodes)
        i == Search(n, [k \in 0..(n - 1) |-> bytesCompare(pos, nodes[k + 1].Pos) < 1])
    IN  IF i = n
        THEN [before |-> n - 1, at |-> -1, after |-> 0]
        ELSE LET before == IF i = 0 THEN n - 1 ELSE i - 1
                 cmp == bytesCompare(pos, nodes[i + 1].Pos)
             IN  IF cmp = 0
                 THEN [before |-> before, at |-> i,
                       after |-> IF i + 1 < n THEN i + 1 ELSE 0]
                 ELSE [before |-> before, at |-> -1, after |-> i]

\* Ring.indices
indices(nodes, pos) ==
    LET n == Len(nodes)
        i == Search(n, [k \in 0..(n - 1) |-> bytesCompare(pos, nodes[k + 1].Pos) < 1])
    IN  IF i = n
        THEN [before |-> n - 1, at |-> -1, after |-> 0]
        ELSE LET before == IF i = 0 THEN n - 1 ELSE i - 1
                 cmp == bytesCompare(pos, nodes[i + 1].Pos)
             IN  IF cmp = 0
                 THEN LET j == i + Search(n - i,
                                 [k \in 0..(n - i - 1) |->
                                     bytesCompare(pos, nodes[k + i + 1].Pos) < 0])
                      IN  [before |-> before, at |-> i,
                           after |-> IF j < n THEN j ELSE 0]
                 ELSE [before |-> before, at |-> -1, after |-> i]

RECURSIVE getSlotLoop(_, _, _, _)
\* the loop of Ring.getSlot: the biggest space found and the index it starts at
getSlotLoop(nodes, i, biggestSpace, biggestSpaceIndex) ==
    IF i >= Len(nodes)
    THEN [biggestSpace |-> biggestSpace, biggestSpaceIndex |-> biggestSpaceIndex]
    ELSE LET this == SetBytes(nodes[i + 1].Pos)
             max == <<1>> \o [k \in 1..Size |-> 0]
             next == IF i + 1 < Len(nodes)
                     THEN SetBytes(nodes[i + 1].Pos)
                     ELSE SetBytes(max) + SetBytes(nodes[1].Pos)
             thisSpace == next - this
         IN  IF biggestSpace < thisSpace
             THEN getSlotLoop(nodes, i + 1, thisSpace, i)
             ELSE getSlotLoop(nodes, i + 1, biggestSpace, biggestSpaceIndex)

\* Ring.getSlot: the byte string returned; indexing an empty ring panics
getSlot(nodes) ==
    IF Len(nodes) = 0
    THEN [ret |-> <<>>, panic |-> TRUE]
    ELSE LET l == getSlotLoop(nodes, 0, 0, 0)
         IN  [ret |-> BigBytes(SetBytes(nodes[l.biggestSpaceIndex + 1].Pos)
                               + (l.biggestSpace \div 2)),
              panic |-> FALSE]

RECURSIVE removeLoop(_, _, _, _, _)
\* the range loop of Ring.remove, over the backing array like addLoop
removeLoop(arr, n, m, index, remote) ==
    IF index >= m
    THEN [arr |-> arr, n |-> n, panic |-> FALSE]
    ELSE IF arr[index + 1].Addr = remote.Addr
         THEN IF index + 1 > n
              THEN [arr |-> arr, n |-> n, panic |-> TRUE]
              ELSE removeLoop(deleteAt(arr, n, index), n - 1, m, index + 1, remote)
         ELSE removeLoop(arr, n, m, index + 1, remote)

\* Ring.remove with the slice bound off by one,
\* append(self.Nodes[:index], self.Nodes[index:]...): nothing is removed
removeOffByOne(nodes, remote) == [nodes |-> nodes, panic |-> FALSE]

\* Ring.remove
remove(nodes, remote) ==
    LET l == removeLoop(nodes, Len(nodes), Len(nodes), 0, remote)
    IN  [nodes |-> Slice(l.arr, 0, l.n), panic |-> l.panic]

\* Ring.clean without "if at != -1 { to = at }": it prunes up to the entry
\* before the successor position
cleanToBefore(nodes, predecessor, successor) ==
    LET from == indices(nodes, predecessor).after
        to == indices(nodes, successor).before
    IN  IF from > to
        THEN IF to < 0
             THEN [nodes |-> nodes, panic |-> TRUE]
             ELSE [nodes |-> Slice(nodes, to, from), panic |-> FALSE]
        ELSE [nodes |-> Slice(nodes, 0, from) \o Slice(nodes, to, Len(nodes)),
              panic |-> FALSE]

\* Ring.clean: slicing with a negative bound (the empty ring) panics
clean(nodes, predecessor, successor) ==
    LET from == indices(nodes, predecessor).after
        s == indices(nodes, successor)
        to == IF s.at # -1 THEN s.at ELSE s.before
    IN  IF from > to
        THEN IF to < 0
             THEN [nodes |-> nodes, panic |-> TRUE]
             ELSE [nodes |-> Slice(nodes, to, from), panic |-> FALSE]
        ELSE [nodes |-> Slice(nodes, 0, from) \o Slice(nodes, to, Len(nodes)),
              panic |-> FALSE]

-----------------------------------------------------------------------------
(* Rings the program can hold *)

\* strictly sorted under Remote.less
IsSorted(nodes) == \A i \in 1..(Len(nodes) - 1) : less(nodes[i], nodes[i + 1])

UniqueAddrs(nodes) ==
    \A i, j \in 1..Len(nodes) : i # j => nodes[i].Addr # nodes[j].Addr

RECURSIVE SortedSeq(_)
\* the sorted sequence of a set of Remotes
SortedSeq(S) ==
    IF S = {} THEN <<>>
    ELSE LET min == CHOOSE r \in S : \A q \in S \ {r} : less(r, q)
         IN  <<min>> \o SortedSeq(S \ {min})

\* every ring with unique addresses, sorted: what add and remove build from the
\* empty ring. Each address is absent (<<>>) or at one position.
ValidRings ==
    {SortedSeq({[Pos |-> f[a], Addr |-> a] : a \in {b \in Addrs : f[b] # <<>>}}) :
        f \in [Addrs -> Position \cup {<<>>}]}

NoOp == [op |-> "none", panic |-> FALSE]

-----------------------------------------------------------------------------
(* The ring under its operations *)

\* a call of Ring.add
RingAdd(remote) ==
    /\ ~last.panic
    /\ LET r == add(Nodes, remote)
       IN  /\ Nodes' = r.nodes
           /\ last' = [op |-> "add", remote |-> remote, prev |-> Nodes, panic |-> r.panic]
    /\ UNCHANGED <<dhashVars, nodeVars>>

\* a call of Ring.remove; the record keeps the ring before an add of the same
\* Remote when that add was the call just before
RingRemove(remote) ==
    /\ ~last.panic
    /\ LET r == remove(Nodes, remote)
           afterAdd == last.op = "add" /\ last.remote = remote
       IN  /\ Nodes' = r.nodes
           /\ last' = [op |-> "remove", remote |-> remote, prev |-> Nodes,
                       panic |-> r.panic, afterAdd |-> afterAdd,
                       addPrev |-> IF afterAdd THEN last.prev ELSE <<>>]
    /\ UNCHANGED <<dhashVars, nodeVars>>

\* a call of Ring.indices
RingIndices(pos) ==
    /\ ~last.panic
    /\ last' = [op |-> "indices", pos |-> pos, prev |-> Nodes,
                ret |-> indices(Nodes, pos), panic |-> FALSE]
    /\ UNCHANGED <<Nodes, dhashVars, nodeVars>>

\* a call of Ring.getSlot
RingGetSlot ==
    /\ ~last.panic
    /\ LET r == getSlot(Nodes)
       IN  last' = [op |-> "getSlot", prev |-> Nodes, ret |-> r.ret, panic |-> r.panic]
    /\ UNCHANGED <<Nodes, dhashVars, nodeVars>>

\* a call of Ring.clean
RingClean(predecessor, successor) ==
    /\ ~last.panic
    /\ LET r == clean(Nodes, predecessor, successor)
       IN  /\ Nodes' = r.nodes
           /\ last' = [op |-> "clean", predecessor |-> predecessor,
                       successor |-> successor, prev |-> Nodes, panic |-> r.panic]
    /\ UNCHANGED <<dhashVars, nodeVars>>

-----------------------------------------------------------------------------
(* The dhash node: Start, Stop and the periodic workers *)

created == 0
started == 1
stopped == 2

Callers == 1..NumCallers
Kinds == {"sync", "clean", "migrate"}

\* Node.hasState answering true whatever the state is
hasStateAlways(st, s) == TRUE

\* Node.hasState on a state word st
hasState(st, s) == st = s

\* Node.changeState with the blind store atomic.StoreInt32(&self.state, neu)
\* in place of the compare-and-swap
changeStateStore(st, old, neu) == [swapped |-> TRUE, state |-> neu]

\* Node.changeState on a state word st: atomic.CompareAndSwapInt32
changeState(st, old, neu) ==
    [swapped |-> st = old, state |-> IF st = old THEN neu ELSE st]

Bump(t, field) == [t EXCEPT ![field] = @ + 1]

\* Start(), line 96-98: the CAS created -> started; the loser returns the error
Start_changeState(c) ==
    /\ cpc[c] = "idle"
    /\ calls < MaxCalls
    /\ calls' = calls + 1
    /\ LET r == changeState(state, created, started)
       IN  /\ state' = r.state
           /\ IF r.swapped
              THEN /\ cpc' = [cpc EXCEPT ![c] = "start_node"]
                   /\ tally' = Bump(tally, "startWins")
              ELSE /\ cpc' = cpc
                   /\ tally' = Bump(tally, "startErrState")
    /\ UNCHANGED <<wpc, launched, ringVars, dhashVars>>

\* Start(), line 99-101: self.node.Start() succeeds, or fails and Start returns its error
Start_nodeStart(c) ==
    /\ cpc[c] = "start_node"
    /\ \E failed \in BOOLEAN :
          IF failed
          THEN /\ cpc' = [cpc EXCEPT ![c] = "idle"]
               /\ tally' = Bump(tally, "startErrNode")
          ELSE /\ cpc' = [cpc EXCEPT ![c] = "start_launch"]
               /\ tally' = Bump(tally, "nodeStarts")
    /\ UNCHANGED <<state, calls, wpc, launched, ringVars, dhashVars>>

\* Start(), line 102-106: the timer starts, the three workers are launched, Start returns nil
Start_launch(c) ==
    /\ cpc[c] = "start_launch"
    /\ cpc' = [cpc EXCEPT ![c] = "idle"]
    /\ tally' = Bump(Bump(tally, "timerStarts"), "startNil")
    /\ wpc' = [wpc EXCEPT ![c] = [k \in Kinds |-> "check"]]
    /\ launched' = [k \in Kinds |-> launched[k] + 1]
    /\ UNCHANGED <<state, calls, ringVars, dhashVars>>

\* Stop() storing stopped whatever the state is, and going on to stop the
\* routing node and the timer
Stop_store(c) ==
    /\ cpc[c] = "idle"
    /\ calls < MaxCalls
    /\ calls' = calls + 1
    /\ state' = stopped
    /\ cpc' = [cpc EXCEPT ![c] = "stop_node"]
    /\ tally' = Bump(Bump(tally, "stopCalls"), "stopWins")
    /\ UNCHANGED <<wpc, launched, ringVars, dhashVars>>

\* Stop(), line 90: the CAS started -> stopped; the loser returns at once
Stop_changeState(c) ==
    /\ cpc[c] = "idle"
    /\ calls < MaxCalls
    /\ calls' = calls + 1
    /\ LET r == changeState(state, started, stopped)
       IN  /\ state' = r.state
           /\ IF r.swapped
              THEN /\ cpc' = [cpc EXCEPT ![c] = "stop_node"]
                   /\ tally' = Bump(Bump(tally, "stopCalls"), "stopWins")
              ELSE /\ cpc' = cpc
                   /\ tally' = Bump(tally, "stopCalls")
    /\ UNCHANGED <<wpc, launched, ringVars, dhashVars>>

\* Stop(), line 91: self.node.Stop()
Stop_nodeStop(c) ==
    /\ cpc[c] = "stop_node"
    /\ cpc' = [cpc EXCEPT ![c] = "stop_timer"]
    /\ tally' = Bump(tally, "nodeStops")
    /\ UNCHANGED <<state, calls, wpc, launched, ringVars, dhashVars>>

\* Stop(), line 92: self.timer.Stop(), and Stop returns
Stop_timerStop(c) ==
    /\ cpc[c] = "stop_timer"
    /\ cpc' = [cpc EXCEPT ![c] = "idle"]
    /\ tally' = Bump(tally, "timerStops")
    /\ UNCHANGED <<state, calls, wpc, launched, ringVars, dhashVars>>

\* syncPeriodically / cleanPeriodically / migratePeriodically: the loop condition
\* self.hasState(started), read at the iteration boundary
Periodically_hasState(c, k) ==
    /\ wpc[c][k] = "check"
    /\ wpc' = [wpc EXCEPT ![c][k] = IF hasState(state, started) THEN "tick" ELSE "exited"]
    /\ UNCHANGED <<state, cpc, calls, tally, launched, ringVars, dhashVars>>

\* the tick body self.sync() / self.clean() / self.migrate() runs and returns
Periodically_tick(c, k) ==
    /\ wpc[c][k] = "tick"
    /\ wpc' = [wpc EXCEPT ![c][k] = "sleep"]
    /\ UNCHANGED <<state, cpc, calls, tally, launched, ringVars, dhashVars>>

\* time.Sleep(syncInterval) returns
Periodically_sleep(c, k) ==
    /\ wpc[c][k] = "sleep"
    /\ wpc' = [wpc EXCEPT ![c][k] = "check"]
    /\ UNCHANGED <<state, cpc, calls, tally, launched, ringVars, dhashVars>>

\* NewNode: state created, nothing called, nothing launched
InitNodeVars ==
    /\ state = created
    /\ cpc = [c \in Callers |-> "idle"]
    /\ calls = 0
    /\ tally = [startWins |-> 0, startNil |-> 0, startErrState |-> 0, startErrNode |-> 0,
                nodeStarts |-> 0, timerStarts |-> 0,
                stopCalls |-> 0, stopWins |-> 0, nodeStops |-> 0, timerStops |-> 0]
    /\ wpc = [c \in Callers |-> [k \in Kinds |-> "none"]]
    /\ launched = [k \in Kinds |-> 0]

\* NewNode: lastSync, lastReroute and lastMigrate are zero, no migrate tick is
\* under way; no remote tree holds a key
InitDHash ==
    /\ since = [sync |-> AgeCap, reroute |-> AgeCap, migrate |-> AgeCap]
    /\ peers = [a \in Addrs \ {<<0>>} |-> {}]
    /\ mpc = [pc |-> "idle"]

InitOther ==
    /\ tree = {}
    /\ redundancy = 1
    /\ InitDHash
    /\ InitNodeVars

InitRing ==
    /\ Nodes \in ValidRings
    /\ last = NoOp
    /\ InitOther

InitNode ==
    /\ Nodes = <<>>
    /\ last = NoOp
    /\ InitOther

\* a step of a call in progress
CallStep(c) ==
    \/ Start_nodeStart(c)
    \/ Start_launch(c)
    \/ Stop_nodeStop(c)
    \/ Stop_timerStop(c)

\* a step of a worker
WorkerStep(c, k) ==
    \/ Periodically_hasState(c, k)
    \/ Periodically_tick(c, k)
    \/ Periodically_sleep(c, k)

NextNode ==
    \/ \E c \in Callers : Start_changeState(c)
    \/ \E c \in Callers : Stop_changeState(c)
    \/ \E c \in Callers : CallStep(c)
    \/ \E c \in Callers, k \in Kinds : WorkerStep(c, k)

SpecNode == InitNode /\ [][NextNode]_vars

\* goroutines that can take a step do take it: a call in progress goes on, and
\* a worker's check, tick body and sleep each come to an end
SpecNodeFair ==
    /\ SpecNode
    /\ \A c \in Callers : WF_vars(CallStep(c))
    /\ \A c \in Callers, k \in Kinds : WF_vars(WorkerStep(c, k))

\* membership changes: any sequence of add and remove
NextRing ==
    \/ \E remote \in Remote : RingAdd(remote)
    \/ \E remote \in Remote : RingRemove(remote)

SpecRing == InitRing /\ [][NextRing]_vars

\* lookups, slot allocation and pruning on any ring add and remove can build
NextRingOps ==
    \/ \E pos \in Position : RingIndices(pos)
    \/ RingGetSlot
    \/ \E predecessor, successor \in Position : RingClean(predecessor, successor)

SpecRingOps == InitRing /\ [][NextRingOps]_vars

-----------------------------------------------------------------------------
(* Ownership: the routing node and the tree as the dhash node uses them *)

\* the address of the node itself, discord.Node.GetAddr()
SelfAddr == <<0>>

\* nil, for a []byte bound of RealSizeBetween
Nil == <<>>

\* discord.Node.Remote(): the node's own ring entry
NodeRemote(nodes) == CHOOSE r \in {nodes[i] : i \in 1..Len(nodes)} : r.Addr = SelfAddr

\* discord.Node.GetPredecessor(): the entry before the node's own in ring order,
\* the last entry before the first
GetPredecessor(nodes) ==
    LET n == Len(nodes)
        i == Search(n, [k \in 0..(n - 1) |-> ~less(nodes[k + 1], NodeRemote(nodes))])
    IN  IF i < n /\ i > 0 THEN nodes[i] ELSE nodes[n]

\* discord.Node.GetSuccessorForRemote(r): the entry after r in ring order, the
\* first entry after the last
GetSuccessorForRemote(nodes, r) ==
    LET n == Len(nodes)
        i == Search(n, [k \in 0..(n - 1) |-> less(r, nodes[k + 1])])
    IN  IF i < n THEN nodes[i + 1] ELSE nodes[1]

\* discord.Node.GetSuccessorFor(key): the first entry at or after key
GetSuccessorFor(nodes, key) ==
    LET ix == indices(nodes, key)
    IN  IF ix.at # -1 THEN nodes[ix.at + 1] ELSE nodes[ix.after + 1]

\* radix.Tree.RealSizeBetween(min, max, mininc, maxinc) on the key set t
RealSizeBetween(t, min, max, mininc, maxinc) ==
    Cardinality({k \in t :
        /\ \/ min = Nil
           \/ bytesCompare(k, min) > 0
           \/ mininc /\ bytesCompare(k, min) = 0
        /\ \/ max = Nil
           \/ bytesCompare(k, max) < 0
           \/ maxinc /\ bytesCompare(k, max) = 0})

\* radix.Tree.RealSize()
RealSize(t) == Cardinality(t)

\* Node.Owned
Owned(nodes, t) ==
    LET pred == GetPredecessor(nodes)
        me == NodeRemote(nodes)
        cmp == bytesCompare(pred.Pos, me.Pos)
    IN  IF cmp < 0
        THEN RealSizeBetween(t, pred.Pos, me.Pos, TRUE, FALSE)
        ELSE IF cmp > 0
        THEN RealSizeBetween(t, pred.Pos, Nil, TRUE, FALSE)
                + RealSizeBetween(t, Nil, me.Pos, TRUE, FALSE)
        ELSE IF less(pred, me) THEN 0
        ELSE RealSize(t)

\* Node.owners taking every further owner as the successor of the first one,
\* owners[0] in place of owners[i-1]
ownersOfFirst(nodes, key, R) ==
    LET first == GetSuccessorFor(nodes, key)
        os == <<first>> \o [i \in 1..(R - 1) |-> GetSuccessorForRemote(nodes, first)]
    IN  [owners |-> os, isOwner |-> \E i \in 1..Len(os) : os[i].Addr = SelfAddr]

RECURSIVE ownersLoop(_, _, _, _)
\* the loop of Node.owners: owner i is the successor of owner i-1
ownersLoop(nodes, os, i, R) ==
    IF i >= R THEN os
    ELSE ownersLoop(nodes, Append(os, GetSuccessorForRemote(nodes, os[i])), i + 1, R)

\* Node.owners with Redundancy() = R
owners(nodes, key, R) ==
    LET os == ownersLoop(nodes, <<GetSuccessorFor(nodes, key)>>, 1, R)
    IN  [owners |-> os, isOwner |-> \E i \in 1..Len(os) : os[i].Addr = SelfAddr]

\* a call of Node.Owned
NodeOwned ==
    /\ last' = [op |-> "Owned", ret |-> Owned(Nodes, tree), panic |-> FALSE]
    /\ UNCHANGED <<Nodes, dhashVars, nodeVars>>

\* a call of Node.owners
NodeOwners(key) ==
    /\ last' = [op |-> "owners", key |-> key, ret |-> owners(Nodes, key, redundancy),
                panic |-> FALSE]
    /\ UNCHANGED <<Nodes, dhashVars, nodeVars>>

\* the rings a node holds: valid, with the node's own entry
RingsWithSelf == {r \in ValidRings : \E i \in 1..Len(r) : r[i].Addr = SelfAddr}

\* a node with any ring and any keys stored, asked for its owned count
InitOwned ==
    /\ Nodes \in RingsWithSelf
    /\ last = NoOp
    /\ tree \in SUBSET Position
    /\ redundancy = 1
    /\ InitDHash
    /\ InitNodeVars

NextOwned == NodeOwned

SpecOwned == InitOwned /\ [][NextOwned]_vars

\* a node with any ring and replication factor, asked for the owners of a key
InitOwners ==
    /\ Nodes \in RingsWithSelf
    /\ last = NoOp
    /\ tree = {}
    /\ redundancy \in 1..MaxRedundancy
    /\ InitDHash
    /\ InitNodeVars

NextOwners == \E key \in Position : NodeOwners(key)

SpecOwners == InitOwners /\ [][NextOwners]_vars

-----------------------------------------------------------------------------
(* Migration: the node moves its position back to hand keys to its successor *)

\* length of the longer keys
KeyLen == Size + 2

\* the keys a tree can hold: the positions themselves, longer keys that fall
\* between positions, and one-byte keys shorter than a position
KeyDomain == Position \cup [1..KeyLen -> Byte] \cup [1..1 -> Byte]

\* discord.Node.GetPosition()
GetPosition(nodes) == NodeRemote(nodes).Pos

\* discord.Node.GetSuccessor(): the entry after the node's own
GetSuccessor(nodes) == GetSuccessorForRemote(nodes, NodeRemote(nodes))

\* discord.Node.SetPosition(p): the node's own entry is moved to p
SetPosition(nodes, p) == add(nodes, [Pos |-> p, Addr |-> SelfAddr]).nodes

\* discord.Node.RemoveNode(r)
RemoveNode(nodes, r) == remove(nodes, r).nodes

\* radix.Tree.NextMarkerIndex(index): the key that has index keys before it
NextMarkerIndex(t, index) ==
    LET at == {k \in t : Cardinality({j \in t : bytesCompare(j, k) < 0}) = index}
    IN  IF at = {} THEN [key |-> Nil, existed |-> FALSE]
        ELSE [key |-> CHOOSE k \in at : TRUE, existed |-> TRUE]

\* common.BetweenIE(needle, fromInc, toExc): from included, to excluded, round
\* the circle when from is above to, everything when they are equal
BetweenIE(needle, fromInc, toExc) ==
    LET cmp == bytesCompare(fromInc, toExc)
    IN  IF cmp = 0 THEN TRUE
        ELSE IF cmp < 0
        THEN bytesCompare(fromInc, needle) < 1 /\ bytesCompare(needle, toExc) < 0
        ELSE bytesCompare(fromInc, needle) < 1 \/ bytesCompare(needle, toExc) < 0

\* common.Max64 of the three timestamps, as the time since the latest of them
sinceLastChange(ages) ==
    LET all == {ages.sync, ages.reroute, ages.migrate}
    IN  CHOOSE a \in all : \A b \in all : a <= b

\* the quiescence gate of migrate: now - migrateWaitFactor * syncInterval is
\* after the latest of lastSync, lastReroute and lastMigrate
quiescent(ages) == sinceLastChange(ages) > migrateWaitFactor * syncInterval

\* the hysteresis test without its floor of migrateMinSize
hysteresisRatioOnly(mySize, succSize) ==
    mySize * migrateHysteresis[2] > succSize * migrateHysteresis[1]

\* mySize > 10 && float64(mySize) > float64(succSize)*migrateHysteresis
hysteresis(mySize, succSize) ==
    /\ mySize > migrateMinSize
    /\ mySize * migrateHysteresis[2] > succSize * migrateHysteresis[1]

\* the target chosen by rank: NextMarkerIndex's key and whether it existed
wantedTarget(nodes, t, succ, wantedDelta) ==
    LET pred == GetPredecessor(nodes)
    IN  IF bytesCompare(pred.Pos, GetPosition(nodes)) < 1
        THEN NextMarkerIndex(t,
                RealSizeBetween(t, Nil, GetPosition(nodes), TRUE, FALSE) - wantedDelta)
        ELSE LET ownedAfterNil == RealSizeBetween(t, Nil, succ.Pos, TRUE, FALSE)
             IN  IF ownedAfterNil > wantedDelta
                 THEN NextMarkerIndex(t, ownedAfterNil - wantedDelta)
                 ELSE NextMarkerIndex(t, RealSize(t) + ownedAfterNil - wantedDelta)

\* a safety check that lets every target through
acceptsAny(nodes, wantedPos) == TRUE

\* the safety check on the target before changePosition
accepts(nodes, wantedPos) ==
    BetweenIE(wantedPos, GetPredecessor(nodes).Pos, GetPosition(nodes))

\* changePosition's padding: newPos is filled with zero bytes up to murmur.Size
padded(newPos) ==
    IF Len(newPos) < Size THEN newPos \o [i \in 1..(Size - Len(newPos)) |-> 0]
    ELSE newPos

\* lines 142-151 of changePosition on the padded newPos: the position is set,
\* lastMigrate stored and the migrate listeners called when it differs from the
\* current one
changePadded(nodes, np, oldPos) ==
    IF bytesCompare(np, oldPos) # 0
    THEN [nodes |-> SetPosition(nodes, np), moved |-> TRUE, oldPos |-> oldPos, newPos |-> np]
    ELSE [nodes |-> nodes, moved |-> FALSE, oldPos |-> oldPos, newPos |-> np]

\* Node.changePosition: the ring after it, and whether the position was set
changePosition(nodes, newPos) == changePadded(nodes, padded(newPos), GetPosition(nodes))

\* a failed probe that leaves the successor in the ring
keepOnError(nodes, succ) == nodes

\* the branch of migrate taken when the DHash.Owned call fails
removeOnError(nodes, succ) == RemoveNode(nodes, succ)

\* what a migrate tick did: the ring after it, how far it got (stage) and what
\* it read and computed on the way; -1 and Nil stand for what it did not reach
tick(nodes, stage, succ, mySize, succSize, wantedDelta, wantedPos) ==
    [nodes |-> nodes, stage |-> stage, succ |-> succ, mySize |-> mySize,
     succSize |-> succSize, wantedDelta |-> wantedDelta, wantedPos |-> wantedPos,
     oldPos |-> Nil, newPos |-> Nil]

\* lines 177-193 after the target is computed: return when it did not exist,
\* then the safety check
migrateTarget(nodes, succ, mySize, succSize, wantedDelta, target) ==
    IF ~target.existed
    THEN tick(nodes, "notarget", succ, mySize, succSize, wantedDelta, Nil)
    ELSE IF ~accepts(nodes, target.key)
    THEN tick(nodes, "rejected", succ, mySize, succSize, wantedDelta, target.key)
    ELSE tick(nodes, "accepted", succ, mySize, succSize, wantedDelta, target.key)

\* lines 171-172 with the counts read: the hysteresis gate and wantedDelta
migrateSized(nodes, t, succ, mySize, succSize) ==
    IF ~hysteresis(mySize, succSize)
    THEN tick(nodes, "balanced", succ, mySize, succSize, -1, Nil)
    ELSE migrateTarget(nodes, succ, mySize, succSize, (mySize - succSize) \div 2,
                       wantedTarget(nodes, t, succ, (mySize - succSize) \div 2))

\* lines 167-170 with the successor read: the DHash.Owned call and its two ends
migrateProbe(nodes, t, reply, succ) ==
    IF reply.err
    THEN tick(removeOnError(nodes, succ), "removed", succ, -1, -1, -1, Nil)
    ELSE migrateSized(nodes, t, succ, Owned(nodes, t), reply.size)

\* Node.migrate up to its call of changePosition, on the ring nodes and the tree
\* t, the timestamps aged ages, the successor answering reply = [err, size]
migrateDecide(nodes, t, ages, reply) ==
    IF ~quiescent(ages)
    THEN tick(nodes, "skipped", Nil, -1, -1, -1, Nil)
    ELSE migrateProbe(nodes, t, reply, GetSuccessor(nodes))

\* the tick d after its call of changePosition returned c
changed(d, c) ==
    [d EXCEPT !.nodes = c.nodes, !.stage = IF c.moved THEN "moved" ELSE "same",
              !.oldPos = c.oldPos, !.newPos = c.newPos]

\* line 193 on the tick d: changePosition is called when the target was accepted
migrateChange(d) ==
    IF d.stage = "accepted" THEN changed(d, changePosition(d.nodes, d.wantedPos)) ELSE d

\* Node.migrate
migrate(nodes, t, ages, reply) == migrateChange(migrateDecide(nodes, t, ages, reply))

\* the owned counts a remote successor answers with
SuccSizes == {0, 10, 14}

\* the answers to the DHash.Owned call: the node's own count when it is its own
\* successor, else an error or any count
Replies(nodes, t) ==
    IF GetSuccessor(nodes).Addr = SelfAddr
    THEN {[err |-> FALSE, size |-> Owned(nodes, t)]}
    ELSE {[err |-> TRUE, size |-> 0]} \cup {[err |-> FALSE, size |-> n] : n \in SuccSizes}

\* the timestamps after a step: a ring change stores lastReroute through the
\* change listener of NewNode, a position change stores lastMigrate
stamped(ages, rerouted, migrated) ==
    [sync |-> ages.sync,
     reroute |-> IF rerouted THEN 0 ELSE ages.reroute,
     migrate |-> IF migrated THEN 0 ELSE ages.migrate]

\* the state after a migrate tick that did m on the ring prev
MigrateDone(prev, m) ==
    /\ Nodes' = m.nodes
    /\ since' = stamped(since, m.nodes # prev, m.stage = "moved")
    /\ last' = [op |-> "migrate", prev |-> prev, prevSince |-> since, prevTree |-> tree,
                panic |-> FALSE] @@ m

\* one pass of the loop of migratePeriodically: a call of migrate
MigrateTick ==
    /\ mpc.pc = "idle"
    /\ \E reply \in Replies(Nodes, tree) :
          MigrateDone(Nodes, migrate(Nodes, tree, since, reply))
    /\ UNCHANGED <<tree, redundancy, peers, mpc, nodeVars>>

\* time passes: one syncInterval
ClockTick ==
    /\ \E f \in {"sync", "reroute", "migrate"} : since[f] < AgeCap
    /\ since' = [f \in {"sync", "reroute", "migrate"} |->
                    IF since[f] < AgeCap THEN since[f] + 1 ELSE AgeCap]
    /\ last' = NoOp
    /\ UNCHANGED <<Nodes, tree, redundancy, peers, mpc, nodeVars>>

\* the keys of KeyDomain from position p up
KeysFrom(p) == {k \in KeyDomain : bytesCompare(k, p) >= 0}

\* the trees tried: every key, none, and the keys from a position up
MigrateTrees == {KeyDomain, {}} \cup {KeysFrom(p) : p \in Position}

\* a node with any ring and one of the trees, its timestamps long past
InitMigrate ==
    /\ Nodes \in RingsWithSelf
    /\ last = NoOp
    /\ tree \in MigrateTrees
    /\ redundancy = 1
    /\ InitDHash
    /\ InitNodeVars

NextMigrate ==
    \/ MigrateTick
    \/ ClockTick

SpecMigrate == InitMigrate /\ [][NextMigrate]_vars

\* Migration beside the routing server: migrate runs on the worker's goroutine
\* and holds no lock from its reads of the ring to its call of SetPosition,
\* while the routing server adds, moves and removes peers

\* a membership event: the peer remote joins the ring, or moves when its
\* address is in the ring already; the change listener stores lastReroute
MemberAdd(remote) ==
    /\ remote.Addr # SelfAddr
    /\ ~add(Nodes, remote).panic
    /\ add(Nodes, remote).nodes # Nodes
    /\ Nodes' = add(Nodes, remote).nodes
    /\ since' = stamped(since, TRUE, FALSE)
    /\ last' = NoOp
    /\ UNCHANGED <<tree, redundancy, peers, mpc, nodeVars>>

\* a membership event: the peer remote leaves the ring
MemberRemove(remote) ==
    /\ remote.Addr # SelfAddr
    /\ \E i \in 1..Len(Nodes) : Nodes[i] = remote
    /\ Nodes' = RemoveNode(Nodes, remote)
    /\ since' = stamped(since, TRUE, FALSE)
    /\ last' = NoOp
    /\ UNCHANGED <<tree, redundancy, peers, mpc, nodeVars>>

\* the tick that decided d on the ring prev: it is over unless the target was
\* accepted, and then it stands before its call of changePosition
MigrateDecided(prev, d) ==
    IF d.stage = "accepted"
    THEN /\ mpc' = [pc |-> "change", d |-> d]
         /\ last' = NoOp
         /\ UNCHANGED <<Nodes, since>>
    ELSE /\ MigrateDone(prev, d)
         /\ mpc' = mpc

\* lines 163-192 of migrate: the gate, the probe, the target and the safety check
MigrateRead ==
    /\ mpc.pc = "idle"
    /\ \E reply \in Replies(Nodes, tree) :
          MigrateDecided(Nodes, migrateDecide(Nodes, tree, since, reply))
    /\ UNCHANGED <<tree, redundancy, peers, nodeVars>>

\* line 193 of migrate: changePosition with the accepted target, on the ring as
\* it is by now
MigrateApply ==
    /\ mpc.pc = "change"
    /\ MigrateDone(Nodes, migrateChange([mpc.d EXCEPT !.nodes = Nodes]))
    /\ mpc' = [pc |-> "idle"]
    /\ UNCHANGED <<tree, redundancy, peers, nodeVars>>

NextMigrateRace ==
    \/ MigrateRead
    \/ MigrateApply
    \/ \E remote \in Remote : MemberAdd(remote)
    \/ \E remote \in Remote : MemberRemove(remote)
    \/ ClockTick

SpecMigrateRace == InitMigrate /\ [][NextMigrateRace]_vars

-----------------------------------------------------------------------------
(* Anti-entropy: sync with the successors, clean of the keys not owned *)

\* the trees by address: the node's own and the remote ones
treesOf(t, ps) == [a \in Addrs |-> IF a = SelfAddr THEN t ELSE ps[a]]

\* the keys a radix.Sync with From(from).To(to) covers: the arc from from to to,
\* to included, from included when fromInc, round the circle when from is not
\* before to
InRange(k, from, to, fromInc) ==
    LET lo == bytesCompare(k, from) > 0 \/ (fromInc /\ bytesCompare(k, from) = 0)
        hi == bytesCompare(k, to) <= 0
        cmp == bytesCompare(from, to)
    IN  IF cmp < 0 \/ (fromInc /\ cmp = 0) THEN lo /\ hi ELSE lo \/ hi

\* radix.NewSync(src, dst).From(from).To(to).Run(), after Destroy() when destroy:
\* the covered keys of src are copied to dst, and with Destroy removed from src;
\* PutCount is the number of keys dst did not have, DelCount the number removed
syncRun(all, src, dst, from, to, fromInc, destroy) ==
    LET sent == {k \in all[src] : InRange(k, from, to, fromInc)}
        copied == [all EXCEPT ![dst] = @ \cup sent]
    IN  [trees |-> IF destroy THEN [copied EXCEPT ![src] = @ \ sent] ELSE copied,
         put |-> Cardinality(sent \ all[dst]),
         del |-> IF destroy THEN Cardinality(sent) ELSE 0]

\* a sync loop that goes on with the same successor
syncStay(nodes, nextSuccessor) == nextSuccessor

\* line 116: the loop goes on with the successor of the successor
syncAdvance(nodes, nextSuccessor) == GetSuccessorForRemote(nodes, nextSuccessor)

RECURSIVE syncLoop(_, _, _, _, _, _, _)
\* the end of a pass of the loop of Node.sync, the pull done
syncNext(nodes, nextSuccessor, i, R, fetched, distributed, pull) ==
    syncLoop(nodes, pull.trees, syncAdvance(nodes, nextSuccessor), i + 1, R,
             fetched + pull.put, distributed)

\* line 115, the push done: the pull from the successor over the same arc
syncPull(nodes, nextSuccessor, i, R, fetched, distributed, push) ==
    syncNext(nodes, nextSuccessor, i, R, fetched, distributed + push.put,
             syncRun(push.trees, nextSuccessor.Addr, SelfAddr,
                     GetPredecessor(nodes).Pos, GetPosition(nodes), FALSE, FALSE))

\* the loop of Node.sync: Redundancy() - 1 passes, each a push to and a pull from
\* nextSuccessor over the arc from the predecessor's position to the node's own
syncLoop(nodes, all, nextSuccessor, i, R, fetched, distributed) ==
    IF i >= R - 1
    THEN [trees |-> all, fetched |-> fetched, distributed |-> distributed]
    ELSE syncPull(nodes, nextSuccessor, i, R, fetched, distributed,
                  syncRun(all, SelfAddr, nextSuccessor.Addr,
                          GetPredecessor(nodes).Pos, GetPosition(nodes), FALSE, FALSE))

\* Node.sync: the trees after it and the two counts
sync(nodes, t, ps, R) == syncLoop(nodes, treesOf(t, ps), GetSuccessor(nodes), 0, R, 0, 0)

\* the state after a sync tick that did r: the sync listeners are called when a
\* count is not zero; no timestamp is stored
SyncDone(r) ==
    /\ tree' = r.trees[SelfAddr]
    /\ peers' = [a \in DOMAIN peers |-> r.trees[a]]
    /\ last' = [op |-> "sync", prevTree |-> tree, prevPeers |-> peers,
                fetched |-> r.fetched, distributed |-> r.distributed,
                listeners |-> r.fetched # 0 \/ r.distributed # 0, panic |-> FALSE]

\* one pass of the loop of syncPeriodically: a call of sync
SyncTick ==
    /\ SyncDone(sync(Nodes, tree, peers, redundancy))
    /\ UNCHANGED <<Nodes, redundancy, since, mpc, nodeVars>>

\* one key held by any of the nodes: the trees of the three addresses
OneKeyTrees ==
    {[a \in Addrs |-> IF a \in H THEN {k} ELSE {}] : k \in Position, H \in SUBSET Addrs}

\* a node with any ring and replication factor, its timestamps long past; one
\* key is stored on some of the nodes
InitSync ==
    /\ Nodes \in RingsWithSelf
    /\ last = NoOp
    /\ \E all \in OneKeyTrees :
          /\ tree = all[SelfAddr]
          /\ peers = [a \in Addrs \ {SelfAddr} |-> all[a]]
    /\ redundancy \in 1..MaxRedundancy
    /\ since = [sync |-> AgeCap, reroute |-> AgeCap, migrate |-> AgeCap]
    /\ mpc = [pc |-> "idle"]
    /\ InitNodeVars

NextSync == SyncTick

SpecSync == InitSync /\ [][NextSync]_vars

\* make([]byte, murmur.Size): the key of zero bytes
zeroKey == [i \in 1..Size |-> 0]

\* radix.Tree.NextMarker(key): the first key after key
NextMarker(t, key) ==
    LET above == {k \in t : bytesCompare(k, key) > 0}
    IN  IF above = {} THEN [key |-> Nil, existed |-> FALSE]
        ELSE [key |-> CHOOSE k \in above : \A j \in above : bytesCompare(k, j) <= 0,
              existed |-> TRUE]

\* Node.circularNext: the first key after key, else the zero key when the tree
\* holds it, else the first key after the zero key
circularNext(t, key) ==
    IF NextMarker(t, key).existed THEN NextMarker(t, key)
    ELSE IF zeroKey \in t THEN [key |-> zeroKey, existed |-> TRUE]
    ELSE NextMarker(t, zeroKey)

RECURSIVE cleanLoop(_, _, _, _, _, _)
\* lines 234-236: the sync has run, its counts are added
cleanRan(os, index, nextKey, deleted, put, run) ==
    cleanLoop(run.trees, os, index + 1, nextKey, deleted + run.del, put + run.put)

\* the loop of Node.clean over the owners os: a push to each of the keys from
\* nextKey to the first owner's position, with Destroy for the owner before the last
cleanLoop(all, os, index, nextKey, deleted, put) ==
    IF index >= Len(os)
    THEN [trees |-> all, deleted |-> deleted, put |-> put]
    ELSE cleanRan(os, index, nextKey, deleted, put,
                  syncRun(all, SelfAddr, os[index + 1].Addr, nextKey, os[1].Pos, TRUE,
                          index = Len(os) - 2))

\* lines 227-238 with the owners o of nextKey: nothing is done when the node is one
cleanOwners(all, nextKey, o) ==
    IF o.isOwner THEN [trees |-> all, deleted |-> 0, put |-> 0]
    ELSE cleanLoop(all, o.owners, 0, nextKey, 0, 0)

\* lines 226-227 with the key next found by circularNext
cleanNext(nodes, all, R, next) ==
    IF ~next.existed THEN [trees |-> all, deleted |-> 0, put |-> 0]
    ELSE cleanOwners(all, next.key, owners(nodes, next.key, R))

\* Node.clean (Ring.clean has the name clean): the trees after it and the two counts
Node_clean(nodes, t, ps, R) ==
    cleanNext(nodes, treesOf(t, ps), R, circularNext(t, GetPosition(nodes)))

\* the state after a clean tick that did r: the clean listeners are called when
\* a count is not zero
CleanDone(r) ==
    /\ tree' = r.trees[SelfAddr]
    /\ peers' = [a \in DOMAIN peers |-> r.trees[a]]
    /\ last' = [op |-> "clean", prevTree |-> tree, prevPeers |-> peers,
                deleted |-> r.deleted, put |-> r.put,
                listeners |-> r.deleted # 0 \/ r.put # 0, panic |-> FALSE]

\* one pass of the loop of cleanPeriodically: a call of clean
CleanTick ==
    /\ CleanDone(Node_clean(Nodes, tree, peers, redundancy))
    /\ UNCHANGED <<Nodes, redundancy, since, mpc, nodeVars>>

\* a node with any ring and replication factor that stores any keys, the other
\* nodes storing none
InitClean ==
    /\ Nodes \in RingsWithSelf
    /\ last = NoOp
    /\ tree \in SUBSET Position
    /\ redundancy \in 1..MaxRedundancy
    /\ InitDHash
    /\ InitNodeVars

NextClean == CleanTick

SpecClean == InitClean /\ [][NextClean]_vars

-----------------------------------------------------------------------------
(* A quiescent system: the membership is stable, nothing is written, every *)
(* peer answers, and every node stores every key                            *)

\* discord.Node.GetPredecessor() on the node with ring entry r
PredecessorOf(nodes, r) ==
    LET n == Len(nodes)
        i == Search(n, [k \in 0..(n - 1) |-> ~less(nodes[k + 1], r)])
    IN  IF i < n /\ i > 0 THEN nodes[i] ELSE nodes[n]

\* Node.Owned on the node with ring entry me and tree t: what its DHash.Owned
\* answers
OwnedOf(nodes, me, t) ==
    LET pred == PredecessorOf(nodes, me)
        cmp == bytesCompare(pred.Pos, me.Pos)
    IN  IF cmp < 0
        THEN RealSizeBetween(t, pred.Pos, me.Pos, TRUE, FALSE)
        ELSE IF cmp > 0
        THEN RealSizeBetween(t, pred.Pos, Nil, TRUE, FALSE)
                + RealSizeBetween(t, Nil, me.Pos, TRUE, FALSE)
        ELSE IF less(pred, me) THEN 0
        ELSE RealSize(t)

\* the answer of the successor succ to the DHash.Owned call
Answer(nodes, succ, all) ==
    [err |-> FALSE, size |-> OwnedOf(nodes, succ, all[succ.Addr])]

\* a migrate tick in the quiescent system
QuietTick ==
    /\ mpc.pc = "idle"
    /\ MigrateDone(Nodes, migrate(Nodes, tree, since,
                                  Answer(Nodes, GetSuccessor(Nodes), treesOf(tree, peers))))
    /\ UNCHANGED <<tree, redundancy, peers, mpc, nodeVars>>

\* any ring, one of the trees stored on every node, the timestamps long past
InitQuiet ==
    /\ Nodes \in RingsWithSelf
    /\ last = NoOp
    /\ tree \in MigrateTrees
    /\ peers = [a \in Addrs \ {SelfAddr} |-> tree]
    /\ redundancy = MaxRedundancy
    /\ since = [sync |-> AgeCap, reroute |-> AgeCap, migrate |-> AgeCap]
    /\ mpc = [pc |-> "idle"]
    /\ InitNodeVars

NextQuiet ==
    \/ QuietTick
    \/ ClockTick

SpecQuiet == InitQuiet /\ [][NextQuiet]_vars

-----------------------------------------------------------------------------
(* Properties of the ring *)

\* position a is before position b
PosLess(a, b) == bytesCompare(a, b) < 0

\* 2^(8H): the number of positions of the key space
KeySpace == SetBytes(<<1>> \o [k \in 1..Size |-> 0])

\* x lies strictly inside the circular arc from a to b, both ends excluded;
\* from a position round to itself the arc is the whole circle but that position
StrictlyInside(x, a, b) ==
    IF PosLess(a, b) THEN PosLess(a, x) /\ PosLess(x, b)
    ELSE IF PosLess(b, a) THEN PosLess(a, x) \/ PosLess(x, b)
    ELSE x # a

\* x lies in the circular arc (a, b]: a excluded, b included, wrapping when a >= b
InArc(x, a, b) ==
    IF PosLess(a, b) THEN PosLess(a, x) /\ ~PosLess(b, x)
    ELSE PosLess(a, x) \/ ~PosLess(b, x)

\* C1: after every sequence of Ring.add and Ring.remove calls on a sorted ring
\* with unique addresses (the empty ring included), the ring is strictly sorted
\* under the Remote order and no two entries share an address.
C1_SortedUnique == IsSorted(Nodes) /\ UniqueAddrs(Nodes) /\ ~last.panic

\* an add has moved an address that the ring held at another position
C1_Witness ==
    /\ last.op = "add"
    /\ Len(last.prev) = 3
    /\ \E i \in 1..Len(last.prev) :
          /\ last.prev[i].Addr = last.remote.Addr
          /\ last.prev[i].Pos # last.remote.Pos
    /\ Nodes # last.prev

\* C2: on a non-empty sorted ring indices(pos) returns before = the last index
\* positioned strictly below pos (the highest index if none), at = an index
\* positioned at pos (-1 if none), after = the first index positioned strictly
\* above pos (0 if none); and no entry lies strictly between pos and the entry
\* chosen as its successor (at if there is one, else after).
C2_Indices ==
    (last.op = "indices" /\ Len(last.prev) > 0) =>
        LET nodes == last.prev
            n == Len(nodes)
            pos == last.pos
            Lt == {i \in 0..(n - 1) : PosLess(nodes[i + 1].Pos, pos)}
            Eq == {i \in 0..(n - 1) : nodes[i + 1].Pos = pos}
            Gt == {i \in 0..(n - 1) : PosLess(pos, nodes[i + 1].Pos)}
            succ == IF last.ret.at # -1 THEN last.ret.at ELSE last.ret.after
        IN  /\ last.ret.before = IF Lt = {} THEN n - 1
                                 ELSE CHOOSE i \in Lt : \A j \in Lt : j <= i
            /\ IF Eq = {} THEN last.ret.at = -1 ELSE last.ret.at \in Eq
            /\ last.ret.after = IF Gt = {} THEN 0
                                ELSE CHOOSE i \in Gt : \A j \in Gt : i <= j
            /\ succ \in 0..(n - 1)
            /\ ~PosLess(nodes[succ + 1].Pos, pos) \/ Gt = {}
            /\ nodes[succ + 1].Pos # pos =>
                  \A i \in 0..(n - 1) :
                      ~StrictlyInside(nodes[i + 1].Pos, pos, nodes[succ + 1].Pos)

\* a lookup of a position that two entries share, with a third entry above it
C2_Witness ==
    /\ last.op = "indices"
    /\ Len(last.prev) = 3
    /\ last.prev[1].Pos = last.pos
    /\ last.prev[2].Pos = last.pos
    /\ last.ret.at = 0
    /\ last.ret.after = 2

\* C3 as stated: add(r) followed by remove(r) restores the ring as it was
\* before the add, whatever the ring held.
C3_RestoresAlways ==
    (last.op = "remove" /\ last.afterAdd) => Nodes = last.addPrev

\* C3, amended: add(r) followed by remove(r) restores the ring as it was
\* before the add when that ring held no entry with r's address.
C3_RestoresWhenAbsent ==
    (/\ last.op = "remove"
     /\ last.afterAdd
     /\ \A i \in 1..Len(last.addPrev) : last.addPrev[i].Addr # last.remote.Addr)
        => Nodes = last.addPrev

\* add(r) then remove(r) on a ring of two other addresses
C3_Witness ==
    /\ last.op = "remove"
    /\ last.afterAdd
    /\ Len(last.addPrev) = 2
    /\ \A i \in 1..Len(last.addPrev) : last.addPrev[i].Addr # last.remote.Addr
    /\ Len(last.prev) = 3
    /\ Nodes = last.addPrev

\* the arc that starts at entry i (0-based) of a ring: up to the next entry,
\* and from the last entry round to the first
ArcAfter(nodes, i) ==
    IF i + 1 < Len(nodes)
    THEN SetBytes(nodes[i + 2].Pos) - SetBytes(nodes[i + 1].Pos)
    ELSE KeySpace + SetBytes(nodes[1].Pos) - SetBytes(nodes[i + 1].Pos)

\* C4: on a non-empty sorted ring getSlot returns the midpoint of a largest arc
\* between consecutive entries, a position of the key space.
C4_MidpointOfLargestArc ==
    (last.op = "getSlot" /\ ~last.panic) =>
        LET nodes == last.prev
            n == Len(nodes)
        IN  /\ SetBytes(last.ret) < KeySpace
            /\ \E i \in 0..(n - 1) :
                  /\ \A j \in 0..(n - 1) : ArcAfter(nodes, j) <= ArcAfter(nodes, i)
                  /\ SetBytes(last.ret) =
                        (SetBytes(nodes[i + 1].Pos) + (ArcAfter(nodes, i) \div 2)) % KeySpace

\* C5 as stated: after clean(predecessor, successor) the ring holds exactly the
\* prior entries positioned in the arc (predecessor, successor], in prior order.
C5_KeepsArc ==
    (last.op = "clean" /\ ~last.panic) =>
        Nodes = SelectSeq(last.prev,
                    LAMBDA r : InArc(r.Pos, last.predecessor, last.successor))

\* C5, amended: on a ring that holds an entry at position successor,
\* clean(predecessor, successor) removes exactly the entries positioned strictly
\* inside the arc from predecessor to successor and keeps the others in order.
C5_RemovesInside ==
    (/\ last.op = "clean"
     /\ \E i \in 1..Len(last.prev) : last.prev[i].Pos = last.successor)
        => /\ ~last.panic
           /\ Nodes = SelectSeq(last.prev,
                    LAMBDA r : ~StrictlyInside(r.Pos, last.predecessor, last.successor))

\* a clean over a wrapping arc that removed an entry
C5_Witness ==
    /\ last.op = "clean"
    /\ PosLess(last.successor, last.predecessor)
    /\ \E i \in 1..Len(last.prev) : last.prev[i].Pos = last.successor
    /\ Len(last.prev) = 3
    /\ Len(Nodes) = 2

-----------------------------------------------------------------------------
(* Properties of Start, Stop and the workers *)

\* the calls of Start() that have won the CAS: in progress past it, or returned
\* without the state error
StartWinners ==
    Cardinality({c \in Callers : cpc[c] \in {"start_node", "start_launch"}})
        + tally.startNil + tally.startErrNode

\* C6: under any interleaving of Start() calls at most one wins the CAS and
\* returns without the state error, the others launch nothing, and each of the
\* sync, clean and migrate workers is launched at most once.
C6_StartOnce ==
    /\ StartWinners <= 1
    /\ tally.startWins <= 1
    /\ \A k \in Kinds : launched[k] <= 1
    /\ Cardinality({c \in Callers : \E k \in Kinds : wpc[c][k] # "none"}) <= 1
    /\ tally.timerStarts <= 1

\* one Start() has launched the workers and another has returned the state error
C6_Witness ==
    /\ tally.startNil = 1
    /\ tally.startErrState >= 1
    /\ \A k \in Kinds : launched[k] = 1

\* C7: the state goes created -> started -> stopped and never back; a Stop()
\* on a node that is not started changes nothing, and the routing node and the
\* timer are stopped at most once.
C7_Progression ==
    [][/\ state' \in {state, state + 1}
       /\ state = stopped => state' = stopped
       /\ (tally'.stopCalls # tally.stopCalls /\ state # started) =>
              /\ state' = state
              /\ cpc' = cpc
              /\ tally'.stopWins = tally.stopWins
       /\ tally'.nodeStops <= 1
       /\ tally'.timerStops <= 1]_vars

\* a second Stop() has returned after the first stopped the node
C7_Witness ==
    /\ state = stopped
    /\ tally.stopCalls >= 2
    /\ tally.nodeStops = 1
    /\ tally.timerStops = 1
    /\ \A c \in Callers : cpc[c] = "idle"

\* C8: once the node is stopped every worker comes to exit for good (given that
\* tick bodies and sleeps end), and a worker enters a tick body only from an
\* iteration-boundary check that saw the state started.
C8_WorkersExit ==
    /\ [](state = stopped =>
            <>[](\A c \in Callers, k \in Kinds : wpc[c][k] \in {"none", "exited"}))
    /\ [][\A c \in Callers, k \in Kinds :
            (wpc[c][k] # "tick" /\ wpc'[c][k] = "tick") =>
                (wpc[c][k] = "check" /\ state = started)]_vars

\* a stopped node whose three workers ran and have exited
C8_Witness ==
    /\ state = stopped
    /\ \E c \in Callers : \A k \in Kinds : wpc[c][k] = "exited"

-----------------------------------------------------------------------------
(* Properties of the ownership calculations *)

\* C9: Owned() is the number of stored keys in the owned arc (Q, P] of the
\* node at P with predecessor at Q, read circularly; in a one-node ring it is
\* RealSize(), and with predecessor and node at one position it is 0 when the
\* predecessor is less than the node under the Remote order.
C9_OwnedCountsArc ==
    last.op = "Owned" =>
        LET pred == GetPredecessor(Nodes)
            me == NodeRemote(Nodes)
        IN  last.ret =
                IF pred.Pos = me.Pos
                THEN IF less(pred, me) THEN 0 ELSE Cardinality(tree)
                ELSE Cardinality({k \in tree : InArc(k, pred.Pos, me.Pos)})

\* C10: the owners of a key are exactly min(R, ring size) distinct addresses,
\* the first of them the first entry at or after the key.
C10_OwnersDistinct ==
    last.op = "owners" =>
        LET os == last.ret.owners
            n == Len(Nodes)
        IN  /\ Len(os) = redundancy
            /\ Cardinality({os[i].Addr : i \in 1..Len(os)})
                  = IF redundancy < n THEN redundancy ELSE n
            /\ ~PosLess(os[1].Pos, last.key)
                  \/ \A i \in 1..n : PosLess(Nodes[i].Pos, last.key)

\* owners of a key on a ring of three where the first two entries share a
\* position, with R = 3
C10_Witness ==
    /\ last.op = "owners"
    /\ Len(Nodes) = 3
    /\ Nodes[1].Pos = Nodes[2].Pos
    /\ redundancy = 3
    /\ last.ret.owners[1] = Nodes[1]
    /\ last.ret.owners[2] = Nodes[2]
    /\ last.ret.owners[3] = Nodes[3]

-----------------------------------------------------------------------------
(* Properties of migration *)

\* C11: a migrate tick changes the node's position only if both gates hold on
\* that tick: it is not within migrateWaitFactor * T of the latest of lastSync,
\* lastReroute and lastMigrate, and mySize > 10 and mySize > 1.5 * succSize. So
\* no position change happens when mySize <= 10, and a tick changes the position
\* at most once: the ring after it is the ring before it with one SetPosition.
C11_BothGates ==
    (last.op = "migrate" /\ GetPosition(Nodes) # GetPosition(last.prev)) =>
        /\ ~(sinceLastChange(last.prevSince) < 2 * syncInterval)
        /\ Owned(last.prev, tree) > 10
        /\ 2 * Owned(last.prev, tree) > 3 * last.succSize
        /\ Nodes = SetPosition(last.prev, GetPosition(Nodes))

\* a tick has moved the node
C11_Witness ==
    /\ last.op = "migrate"
    /\ last.stage = "moved"
    /\ GetPosition(Nodes) # GetPosition(last.prev)
    /\ last.mySize > 10

\* C12: whenever the body of a sync pass completes, lastSync is the current
\* time, so that the quiescence gate of migrate is closed and a migrate tick
\* within migrateWaitFactor * T of the pass is skipped. The loop body runs when
\* Redundancy() is above one.
C12_SyncStamps ==
    (last.op = "sync" /\ redundancy > 1) => (since.sync = 0 /\ ~quiescent(since))

\* C13: migrate accepts a target wantedPos, and calls SetPosition with it, only
\* if wantedPos lies strictly inside (pred.Pos, self.Pos) on the circle: the
\* position the node is set to is not its predecessor's, is not its own
\* current position or one beyond it, and is not outside its own arc.
C13_StrictlyInside ==
    (last.op = "migrate" /\ last.stage \in {"moved", "same"}) =>
        LET predPos == GetPredecessor(last.prev).Pos
            myPos == GetPosition(last.prev)
        IN  /\ StrictlyInside(last.wantedPos, predPos, myPos)
            /\ last.stage = "moved" =>
                  /\ GetPosition(Nodes) # predPos
                  /\ GetPosition(Nodes) # myPos
                  /\ StrictlyInside(GetPosition(Nodes), predPos, myPos)

\* a tick has moved a node whose arc wraps, the predecessor being another node
C13_Witness ==
    /\ last.op = "migrate"
    /\ last.stage = "moved"
    /\ GetPredecessor(last.prev).Addr # SelfAddr
    /\ PosLess(GetPosition(last.prev), GetPredecessor(last.prev).Pos)

\* the index in the ring nodes of the entry with address a
IndexOf(nodes, a) == CHOOSE i \in 1..Len(nodes) : nodes[i].Addr = a

\* the entry k places after the node's own round the ring nodes
EntryAfterSelf(nodes, k) ==
    nodes[((IndexOf(nodes, SelfAddr) - 1 + k) % Len(nodes)) + 1]

\* C14: when the DHash.Owned probe of the successor fails in a migrate tick that
\* passed the quiescence gate, the successor is removed from the local ring and
\* nothing else of it changes; the node's position, lastMigrate and the tree are
\* unchanged and no migrate listener is called; the successor is from then on
\* the entry that followed the removed one.
C14_ProbeFailure ==
    (last.op = "migrate" /\ last.stage = "removed") =>
        /\ quiescent(last.prevSince)
        /\ last.succ = EntryAfterSelf(last.prev, 1)
        /\ \A i \in 1..Len(Nodes) : Nodes[i].Addr # last.succ.Addr
        /\ {Nodes[i] : i \in 1..Len(Nodes)}
              = {last.prev[i] : i \in 1..Len(last.prev)} \ {last.succ}
        /\ IsSorted(Nodes)
        /\ GetPosition(Nodes) = GetPosition(last.prev)
        /\ since.migrate = last.prevSince.migrate
        /\ tree = last.prevTree
        /\ last.newPos = Nil
        /\ GetSuccessor(Nodes) = EntryAfterSelf(last.prev, 2)

\* the probe of the successor has failed on a ring of three nodes
C14_Witness ==
    /\ last.op = "migrate"
    /\ last.stage = "removed"
    /\ Len(last.prev) = 3
    /\ GetSuccessor(Nodes).Addr # SelfAddr

\* C15: after a clean cycle, with no writes and the ring stable, the node is an
\* owner of every key it stores, for every replication factor from one up and
\* also when the keys it stored without owning them lay in the arcs of more than
\* one primary owner.
C15_CleanLeavesOwned ==
    last.op = "clean" => \A k \in tree : owners(Nodes, k, redundancy).isOwner

\* key k lies in the owned arc of the node on the ring nodes: the arc (Q, P] from
\* its predecessor's position to its own; nothing when the predecessor shares
\* the position and is less
OwnedArc(nodes, k) ==
    LET pred == GetPredecessor(nodes)
        me == NodeRemote(nodes)
    IN  IF pred.Pos = me.Pos THEN ~less(pred, me) ELSE InArc(k, pred.Pos, me.Pos)

\* the tree of the node with ring entry o holds key k
Held(k, o) == k \in treesOf(tree, peers)[o.Addr]

\* C16: after a sync cycle, with no writes and the ring stable, for every key K
\* of the node's owned arc that the node stores and every owner O of K, O's tree
\* holds K.
C16_AllOwnersHold ==
    last.op = "sync" =>
        \A k \in tree : OwnedArc(Nodes, k) =>
            LET os == owners(Nodes, k, redundancy).owners
            IN  \A i \in 1..Len(os) : Held(k, os[i])

\* C16, amended: after a sync cycle, with no writes and the ring stable, for
\* every key K of the node's owned arc that the node stored when the cycle began
\* and every owner O of K, O's tree holds K; the cycle changes the trees of the
\* R-1 successors of the node only.
C16_StoredKeysReplicated ==
    last.op = "sync" =>
        /\ \A k \in last.prevTree : OwnedArc(Nodes, k) =>
              LET os == owners(Nodes, k, redundancy).owners
              IN  \A i \in 1..Len(os) : Held(k, os[i])
        /\ \A a \in DOMAIN peers : peers[a] # last.prevPeers[a] =>
              \E j \in 1..(redundancy - 1) : EntryAfterSelf(Nodes, j).Addr = a

\* a sync cycle has pushed a key to two successors
C16_Witness ==
    /\ last.op = "sync"
    /\ redundancy = 3
    /\ Len(Nodes) = 3
    /\ last.distributed = 2
    /\ \E k \in last.prevTree : OwnedArc(Nodes, k)

\* the node with ring entry me does not hold more than 10 keys and more than
\* migrateHysteresis times its successor's count
Balanced(nodes, me, all) ==
    LET mine == OwnedOf(nodes, me, all[me.Addr])
        succ == GetSuccessorForRemote(nodes, me)
        theirs == OwnedOf(nodes, succ, all[succ.Addr])
    IN  ~(mine > 10 /\ 2 * mine > 3 * theirs)

\* on the ring nodes every node but the node itself is balanced: none of them
\* would migrate
PeersBalanced(nodes) ==
    \A i \in 1..Len(nodes) :
        nodes[i].Addr # SelfAddr => Balanced(nodes, nodes[i], treesOf(tree, peers))

\* C17: in a quiescent system repeated migrate ticks bring the node to a state
\* where its Owned() count is at most 10 or no longer exceeds migrateHysteresis
\* times its successor's, each step firing the migrate listener, also when its
\* owned arc wraps (pred.Pos > self.Pos): a tick that passes the quiescence gate
\* on a node that is not balanced and whose arc wraps, its peers being balanced,
\* moves the node. (A tick reads nothing but the ring, the tree and the
\* successor's count, so a tick that does not move the node leaves it as it is
\* for every later tick.)
C17_TicksBalance ==
    (/\ last.op = "migrate"
     /\ quiescent(last.prevSince)
     /\ PosLess(GetPosition(last.prev), GetPredecessor(last.prev).Pos)
     /\ ~Balanced(last.prev, NodeRemote(last.prev), treesOf(tree, peers))
     /\ PeersBalanced(last.prev)) =>
        last.stage = "moved"

\* C18: whenever a migrate tick accepts a new position, the tree and the rest
\* of the ring unchanged, the node's Owned() count after the move is its count
\* before the move less wantedDelta = (mySize - succSize) / 2, in the case
\* pred.Pos <= self.Pos and in both branches of the wrapped case.
C18_DeltaLeaves ==
    (last.op = "migrate" /\ last.stage = "moved") =>
        /\ last.mySize = Owned(last.prev, tree)
        /\ last.wantedDelta = (last.mySize - last.succSize) \div 2
        /\ Owned(Nodes, tree) = last.mySize - last.wantedDelta

\* the addresses round the ring nodes, from the node's own
CircularOrder(nodes) == [i \in 1..Len(nodes) |-> EntryAfterSelf(nodes, i - 1).Addr]

\* C19: whatever membership events come between a migrate tick's reads of the
\* ring and its SetPosition call, the position applied lies strictly between
\* the node's predecessor and its previous position in the ring as it is when
\* SetPosition takes effect, and the move leaves the circular order of the
\* addresses as it was.
C19_MoveKeepsOrder ==
    (last.op = "migrate" /\ last.stage = "moved") =>
        /\ StrictlyInside(last.newPos, GetPredecessor(last.prev).Pos, GetPosition(last.prev))
        /\ CircularOrder(Nodes) = CircularOrder(last.prev)

-----------------------------------------------------------------------------
(* Properties of a failed Start *)

\* no Start() call is between its CAS and its return
NoStartInProgress == \A c \in Callers : cpc[c] \notin {"start_node", "start_launch"}

\* C20: a failed Start() leaves the node as it was: once Start() has returned
\* the routing node's error the state is created again (unless a Stop() has
\* won since), and every node in state started, no Start() being under way,
\* has its three periodic workers launched and its timer started.
C20_FailedStartRestores ==
    /\ (tally.startErrNode > 0 /\ tally.stopWins = 0) => state = created
    /\ (state = started /\ NoStartInProgress) =>
           /\ \A k \in Kinds : launched[k] >= 1
           /\ tally.timerStarts >= 1

=============================================================================
